---- MODULE Spec2Model ----
(***************************************************************************)
(* The registration store of the football bot (src/database.py) and the    *)
(* command / button handlers of src/5quadbot.py that call it.              *)
(*                                                                         *)
(* The two SQL tables are two sequences of rows in insertion order (the    *)
(* AUTOINCREMENT id of a row is its position).  Every method of            *)
(* FootballDatabase is a synchronous function without an await, so one     *)
(* call is one step; the handlers of the bot are coroutines of one event   *)
(* loop and interleave only at their awaits.  button_handler awaits        *)
(* query.answer() before it touches the store, so several button presses   *)
(* can be in flight at once: they are the members of `pending`.            *)
(***************************************************************************)
EXTENDS Integers, Sequences, FiniteSets, Bags, TLC

\* ---------------------------------------------------------------- bounds
MaxUsers == 4
MaxEvents == 1
MaxClock == 2
MaxCapacity == 2
MaxPending == 2
MaxTeamPlayers == 3

\* ------------------------------------------------------ program constants
MinPlayers == 2
MaxPlayers == 50

None == "None"
True == "True"
False == "False"
TypeError == "TypeError"

Users == 1..MaxUsers
ADMIN_IDS == {1}
\* event ids a command can name: the ones that can exist and one that never does
EventIds == 1..(MaxEvents + 1)
\* "DD/MM/YYYY" and "HH:MM" as their fields, in the order the text has them
Dates == {<<25, 12, 2024>>}
Times == {<<19, 0>>}
Descriptions == {""}
\* max_players arguments tried by /create_event: one below the accepted range too
PlayerArgs == (MinPlayers - 1)..(IF MaxCapacity < MaxPlayers THEN MaxCapacity ELSE MaxPlayers)

\* user.username and user.first_name of the chat user: either may be absent
username_of(u) == IF u % 3 = 0 THEN None ELSE IF u % 3 = 1 THEN "ann" ELSE "bob"
first_name_of(u) == IF u % 3 = 1 THEN "Ann" ELSE None

VARIABLES events, registrations, now, pending, last

vars == <<events, registrations, now, pending, last>>

\* the store call made by the latest step: what it returned (or the exception
\* that left it) and the locals reg_type, user_reg_type and next_user it
\* computed (0: next_user is None)
NoCall == [op |-> None, ret |-> None, reg_type |-> None,
           user_reg_type |-> None, next_user |-> 0]

\* ------------------------------------------------------------ the store
\* SELECT ... FROM events WHERE id = ?: the rows found, none or one
get_event(evs, event_id) ==
    {evs[i] : i \in {j \in DOMAIN evs : evs[j].id = event_id}}

\* INSERT INTO events (...): status defaults to 'active', id is the next rowid
create_event(evs, date, time, max_players, created_by, description, t) ==
    Append(evs, [id |-> Len(evs) + 1, date |-> date, time |-> time,
                 max_players |-> max_players, description |-> description,
                 created_by |-> created_by, created_at |-> t, status |-> "active"])

\* the WHERE clause without status = 'active'
active_rows_any_status(regs, event_id, user_id) ==
    {i \in DOMAIN regs : /\ regs[i].event_id = event_id
                         /\ regs[i].user_id = user_id}

\* WHERE event_id = ? AND user_id = ? AND status = 'active'
active_rows(regs, event_id, user_id) ==
    {i \in DOMAIN regs : /\ regs[i].event_id = event_id
                         /\ regs[i].user_id = user_id
                         /\ regs[i].status = "active"}

\* the count with status = 'cancelled' in place of 'active'
main_count_cancelled(regs, event_id) ==
    Cardinality({i \in DOMAIN regs : /\ regs[i].event_id = event_id
                                     /\ regs[i].registration_type = "main"
                                     /\ regs[i].status = "cancelled"})

\* SELECT COUNT(*) ... WHERE event_id = ? AND registration_type = 'main' AND status = 'active'
main_count(regs, event_id) ==
    Cardinality({i \in DOMAIN regs : /\ regs[i].event_id = event_id
                                     /\ regs[i].registration_type = "main"
                                     /\ regs[i].status = "active"})

\* the INSERT without its registration_type column: DEFAULT 'main'
reg_type_default(count, max_players) == "main"

\* main_count <= max_players
reg_type_off_by_one(count, max_players) ==
    IF count <= max_players THEN "main" ELSE "reserve"

\* reg_type = 'main' if main_count < max_players else 'reserve'
reg_type_of(count, max_players) ==
    IF count < max_players THEN "main" ELSE "reserve"

\* the table without UNIQUE(event_id, user_id)
unique_violation_never(regs, event_id, user_id) == FALSE

\* UNIQUE(event_id, user_id): the constraint covers rows of every status
unique_violation(regs, event_id, user_id) ==
    \E i \in DOMAIN regs : regs[i].event_id = event_id /\ regs[i].user_id = user_id

\* register_user without the already-registered check, on a table without
\* the UNIQUE(event_id, user_id) constraint
register_user_unguarded(regs, evs, event_id, user_id, username, first_name, t) ==
    IF get_event(evs, event_id) = {}
    THEN [regs |-> regs, ret |-> TypeError, reg_type |-> None]
    ELSE LET reg_type == reg_type_of(main_count(regs, event_id),
                                     evs[event_id].max_players)
         IN [regs |-> Append(regs,
                       [id |-> Len(regs) + 1, event_id |-> event_id,
                        user_id |-> user_id, username |-> username,
                        first_name |-> first_name,
                        registration_type |-> reg_type,
                        registered_at |-> t, status |-> "active"]),
             ret |-> True, reg_type |-> reg_type]

\* register_user without the already-registered check and without the
\* try/except: the INSERT's sqlite3.IntegrityError leaves the function
register_user_uncaught(regs, evs, event_id, user_id, username, first_name, t) ==
    IF get_event(evs, event_id) = {}
    THEN [regs |-> regs, ret |-> TypeError, reg_type |-> None]
    ELSE LET reg_type == reg_type_of(main_count(regs, event_id),
                                     evs[event_id].max_players)
         IN IF unique_violation(regs, event_id, user_id)
            THEN [regs |-> regs, ret |-> "IntegrityError", reg_type |-> reg_type]
            ELSE [regs |-> Append(regs,
                           [id |-> Len(regs) + 1, event_id |-> event_id,
                            user_id |-> user_id, username |-> username,
                            first_name |-> first_name,
                            registration_type |-> reg_type,
                            registered_at |-> t, status |-> "active"]),
                  ret |-> True, reg_type |-> reg_type]

\* register_user with a check of the event's status before the INSERT:
\* return False unless the event is active
register_user_active_event_only(regs, evs, event_id, user_id, username, first_name, t) ==
    IF active_rows(regs, event_id, user_id) # {}
    THEN [regs |-> regs, ret |-> False, reg_type |-> None]
    ELSE IF get_event(evs, event_id) = {}
    THEN [regs |-> regs, ret |-> TypeError, reg_type |-> None]
    ELSE LET reg_type == reg_type_of(main_count(regs, event_id),
                                     evs[event_id].max_players)
         IN IF unique_violation(regs, event_id, user_id)
               \/ evs[event_id].status # "active"
            THEN [regs |-> regs, ret |-> False, reg_type |-> reg_type]
            ELSE [regs |-> Append(regs,
                           [id |-> Len(regs) + 1, event_id |-> event_id,
                            user_id |-> user_id, username |-> username,
                            first_name |-> first_name,
                            registration_type |-> reg_type,
                            registered_at |-> t, status |-> "active"]),
                  ret |-> True, reg_type |-> reg_type]

\* the result of register_user: the table afterwards, the value returned (or
\* the exception that leaves the function) and the local reg_type
register_user(regs, evs, event_id, user_id, username, first_name, t) ==
    IF active_rows(regs, event_id, user_id) # {}
    THEN [regs |-> regs, ret |-> False, reg_type |-> None]
    ELSE IF get_event(evs, event_id) = {}
    THEN \* cursor.fetchone()[0] on no row: TypeError, not caught, rolled back
         [regs |-> regs, ret |-> TypeError, reg_type |-> None]
    ELSE LET reg_type == reg_type_of(main_count(regs, event_id),
                                     evs[event_id].max_players)
         IN IF unique_violation(regs, event_id, user_id)
            THEN \* sqlite3.IntegrityError, caught: return False
                 [regs |-> regs, ret |-> False, reg_type |-> reg_type]
            ELSE [regs |-> Append(regs,
                           [id |-> Len(regs) + 1, event_id |-> event_id,
                            user_id |-> user_id, username |-> username,
                            first_name |-> first_name,
                            registration_type |-> reg_type,
                            registered_at |-> t, status |-> "active"]),
                  ret |-> True, reg_type |-> reg_type]

\* ORDER BY registered_at DESC LIMIT 1
next_user_latest(regs, event_id) ==
    LET reserve == {i \in DOMAIN regs : /\ regs[i].event_id = event_id
                                        /\ regs[i].registration_type = "reserve"
                                        /\ regs[i].status = "active"}
    IN {regs[i].user_id : i \in {j \in reserve :
            \A k \in reserve : regs[j].registered_at >= regs[k].registered_at}}

\* LIMIT 1 without the ORDER BY
next_user_unordered(regs, event_id) ==
    {regs[i].user_id : i \in {j \in DOMAIN regs :
                                 /\ regs[j].event_id = event_id
                                 /\ regs[j].registration_type = "reserve"
                                 /\ regs[j].status = "active"}}

\* ORDER BY registered_at LIMIT 1 over the active reserve rows of the event:
\* the user ids fetchone() can return (rows of one second tie, SQLite leaves
\* their order open); empty when there is no such row
next_user(regs, event_id) ==
    LET reserve == {i \in DOMAIN regs : /\ regs[i].event_id = event_id
                                        /\ regs[i].registration_type = "reserve"
                                        /\ regs[i].status = "active"}
    IN {regs[i].user_id : i \in {j \in reserve :
            \A k \in reserve : regs[j].registered_at <= regs[k].registered_at}}

\* DELETE FROM registrations WHERE event_id = ? AND user_id = ? AND status = 'active'
cancel_rows_delete(regs, event_id, user_id) ==
    SelectSeq(regs, LAMBDA row : ~(/\ row.event_id = event_id
                                   /\ row.user_id = user_id
                                   /\ row.status = "active"))

\* UPDATE registrations SET status = 'cancelled' WHERE event_id = ? AND user_id = ? AND status = 'active'
cancel_rows(regs, event_id, user_id) ==
    [i \in DOMAIN regs |->
        IF i \in active_rows(regs, event_id, user_id)
        THEN [regs[i] EXCEPT !.status = "cancelled"] ELSE regs[i]]

\* the UPDATE without `AND user_id = ?`
promote_rows_all(regs, event_id, user_id) ==
    [i \in DOMAIN regs |->
        IF regs[i].event_id = event_id /\ regs[i].status = "active"
        THEN [regs[i] EXCEPT !.registration_type = "main"] ELSE regs[i]]

\* UPDATE registrations SET registration_type = 'main' WHERE event_id = ? AND user_id = ? AND status = 'active'
promote_rows(regs, event_id, user_id) ==
    [i \in DOMAIN regs |->
        IF i \in active_rows(regs, event_id, user_id)
        THEN [regs[i] EXCEPT !.registration_type = "main"] ELSE regs[i]]

\* the promotion without its `if`
promotes_always(user_reg_type) == TRUE

\* the promotion never run
promotes_never(user_reg_type) == FALSE

\* if user_reg_type == 'main'
promotes(user_reg_type) == user_reg_type = "main"

\* the results unregister_user can have: one for each row the promotion
\* query can return
unregister_user(regs, event_id, user_id) ==
    IF active_rows(regs, event_id, user_id) = {}
    THEN {[regs |-> regs, ret |-> False, user_reg_type |-> None, next_user |-> 0]}
    ELSE LET result == CHOOSE i \in active_rows(regs, event_id, user_id) : TRUE
             user_reg_type == regs[result].registration_type
             removed == cancel_rows(regs, event_id, user_id)
         IN IF promotes(user_reg_type) /\ next_user(removed, event_id) # {}
            THEN {[regs |-> promote_rows(removed, event_id, n), ret |-> True,
                   user_reg_type |-> user_reg_type, next_user |-> n] :
                      n \in next_user(removed, event_id)}
            ELSE {[regs |-> removed, ret |-> True,
                   user_reg_type |-> user_reg_type, next_user |-> 0]}

\* the UPDATE with WHERE id = ? AND status = 'cancelled'
cancel_event_only_cancelled(evs, event_id) ==
    [evs |-> evs,
     ret |-> IF \E i \in DOMAIN evs : evs[i].id = event_id /\ evs[i].status = "cancelled"
             THEN True ELSE False]

\* the UPDATE with SET status = CASE status WHEN 'active' THEN 'cancelled'
\* ELSE 'active' END
cancel_event_toggle(evs, event_id) ==
    [evs |-> [i \in DOMAIN evs |->
                 IF evs[i].id = event_id
                 THEN [evs[i] EXCEPT !.status = IF @ = "active" THEN "cancelled"
                                                ELSE "active"]
                 ELSE evs[i]],
     ret |-> IF \E i \in DOMAIN evs : evs[i].id = event_id THEN True ELSE False]

\* UPDATE events SET status = 'cancelled' WHERE id = ?; return cursor.rowcount > 0
\* (the rows the WHERE clause matches count, changed or not)
cancel_event(evs, event_id) ==
    [evs |-> [i \in DOMAIN evs |->
                 IF evs[i].id = event_id
                 THEN [evs[i] EXCEPT !.status = "cancelled"] ELSE evs[i]],
     ret |-> IF \E i \in DOMAIN evs : evs[i].id = event_id THEN True ELSE False]

\* the order in which a query ... WHERE event_id = ? ... ORDER BY registered_at
\* returns the rows S: the rows are read through the index of
\* UNIQUE(event_id, user_id), so rows of one second come out by user_id
by_registered_at(regs, S) ==
    {s \in [1..Cardinality(S) -> S] :
        /\ \A i, j \in 1..Cardinality(S) : i # j => s[i] # s[j]
        /\ \A i, j \in 1..Cardinality(S) :
              i < j => \/ regs[s[i]].registered_at < regs[s[j]].registered_at
                       \/ /\ regs[s[i]].registered_at = regs[s[j]].registered_at
                          /\ regs[s[i]].user_id <= regs[s[j]].user_id}

\* user_info = {'user_id': ..., 'username': ..., 'first_name': ..., 'registered_at': ...}
user_info(row) ==
    [user_id |-> row.user_id, username |-> row.username,
     first_name |-> row.first_name, registered_at |-> row.registered_at]

\* the results get_event_registrations can have: the active rows of the
\* event, ORDER BY registration_type, registered_at, split by type
get_event_registrations(regs, event_id) ==
    LET of_type(t) == {i \in DOMAIN regs : /\ regs[i].event_id = event_id
                                            /\ regs[i].status = "active"
                                            /\ regs[i].registration_type = t}
    IN {[main |-> [k \in DOMAIN m |-> user_info(regs[m[k]])],
         reserve |-> [k \in DOMAIN r |-> user_info(regs[r[k]])]] :
            m \in by_registered_at(regs, of_type("main")),
            r \in by_registered_at(regs, of_type("reserve"))}

\* text comparison of two dates or times, written as their fields in the
\* order of the text (dd/mm/yyyy, hh:mm)
text_lt(a, b) ==
    \E k \in 1..Len(a) : /\ a[k] < b[k]
                         /\ \A j \in 1..(k - 1) : a[j] = b[j]

\* the query without `AND e.status = 'active'`
get_user_registrations_any_event(regs, evs, user_id) ==
    LET joined == {i \in DOMAIN regs : /\ regs[i].event_id \in DOMAIN evs
                                       /\ regs[i].user_id = user_id
                                       /\ regs[i].status = "active"}
        key(i) == evs[regs[i].event_id].date \o evs[regs[i].event_id].time
    IN {[k \in DOMAIN s |-> <<evs[regs[s[k]].event_id].id,
                              evs[regs[s[k]].event_id].date,
                              evs[regs[s[k]].event_id].time,
                              regs[s[k]].registration_type>>] :
           s \in {s \in [1..Cardinality(joined) -> joined] :
                     \A i, j \in 1..Cardinality(joined) :
                        i < j => \/ text_lt(key(s[i]), key(s[j]))
                                 \/ key(s[i]) = key(s[j]) /\ s[i] < s[j]}}

\* SELECT e.id, e.date, e.time, r.registration_type FROM events e JOIN
\* registrations r ON e.id = r.event_id WHERE r.user_id = ? AND r.status =
\* 'active' AND e.status = 'active' ORDER BY e.date, e.time: the rows of the
\* scan of r, in rowid order among equal dates and times
get_user_registrations(regs, evs, user_id) ==
    LET joined == {i \in DOMAIN regs : /\ regs[i].event_id \in DOMAIN evs
                                       /\ regs[i].user_id = user_id
                                       /\ regs[i].status = "active"
                                       /\ evs[regs[i].event_id].status = "active"}
        key(i) == evs[regs[i].event_id].date \o evs[regs[i].event_id].time
    IN {[k \in DOMAIN s |-> <<evs[regs[s[k]].event_id].id,
                              evs[regs[s[k]].event_id].date,
                              evs[regs[s[k]].event_id].time,
                              regs[s[k]].registration_type>>] :
           s \in {s \in [1..Cardinality(joined) -> joined] :
                     \A i, j \in 1..Cardinality(joined) :
                        i < j => \/ text_lt(key(s[i]), key(s[j]))
                                 \/ key(s[i]) = key(s[j]) /\ s[i] < s[j]}}

\* str(user_id): the decimal digits of a non-negative integer
Digit == <<"0", "1", "2", "3", "4", "5", "6", "7", "8", "9">>
RECURSIVE str(_)
str(n) == IF n < 10 THEN Digit[n + 1] ELSE str(n \div 10) \o Digit[(n % 10) + 1]

\* username or first_name or str(user_id)
display_name_username_first(user_id, username, first_name) ==
    IF username \notin {None, ""} THEN username
    ELSE IF first_name \notin {None, ""} THEN first_name
    ELSE str(user_id)

\* first_name or username or str(user_id): `or` skips None and the empty string
display_name(user_id, username, first_name) ==
    IF first_name \notin {None, ""} THEN first_name
    ELSE IF username \notin {None, ""} THEN username
    ELSE str(user_id)

\* SELECT user_id, username, first_name FROM registrations WHERE event_id = ?
\* AND registration_type = 'main' AND status = 'active' ORDER BY registered_at,
\* one dict per row
get_players_for_teams(regs, event_id) ==
    LET main == {i \in DOMAIN regs : /\ regs[i].event_id = event_id
                                     /\ regs[i].registration_type = "main"
                                     /\ regs[i].status = "active"}
    IN {[k \in DOMAIN s |->
            [user_id |-> regs[s[k]].user_id, username |-> regs[s[k]].username,
             first_name |-> regs[s[k]].first_name,
             display_name |-> display_name(regs[s[k]].user_id, regs[s[k]].username,
                                           regs[s[k]].first_name)]] :
           s \in by_registered_at(regs, main)}

Init ==
    /\ events = <<>>
    /\ registrations = <<>>
    /\ now = 1
    /\ pending = EmptyBag
    /\ last = NoCall

\* CURRENT_TIMESTAMP has a resolution of one second: calls may share a value
Tick ==
    /\ now < MaxClock
    /\ now' = now + 1
    /\ UNCHANGED <<events, registrations, pending, last>>

\* /create_event DD/MM/YYYY HH:MM max_players [description]
create_event_command(u, date, time, max_players, description) ==
    /\ Len(events) < MaxEvents
    /\ IF u \notin ADMIN_IDS
       THEN \* "Only admins can create events!"
            UNCHANGED <<events, last>>
       ELSE IF max_players < MinPlayers \/ max_players > MaxPlayers
       THEN \* "Max players must be between 2 and 50"
            UNCHANGED <<events, last>>
       ELSE /\ events' = create_event(events, date, time, max_players, u,
                                      description, now)
            /\ last' = [NoCall EXCEPT !.op = "create_event", !.ret = True]
    /\ UNCHANGED <<registrations, now, pending>>

\* the call db.register_user(event_id, user.id, user.username, user.first_name)
\* of join_command and of button_handler
DoRegister(event_id, u) ==
    LET r == register_user(registrations, events, event_id, u,
                           username_of(u), first_name_of(u), now)
    IN /\ registrations' = r.regs
       /\ last' = [NoCall EXCEPT !.op = "register_user", !.ret = r.ret,
                                 !.reg_type = r.reg_type]

\* the call db.unregister_user(event_id, user.id) of leave_command and of
\* button_handler
DoUnregister(event_id, u) ==
    \E r \in unregister_user(registrations, event_id, u) :
        /\ registrations' = r.regs
        /\ last' = [NoCall EXCEPT !.op = "unregister_user", !.ret = r.ret,
                                  !.user_reg_type = r.user_reg_type,
                                  !.next_user = r.next_user]

\* /join <event_id>: any number can be typed
join_command(u, event_id) ==
    /\ DoRegister(event_id, u)
    /\ UNCHANGED <<events, now, pending>>

\* /leave <event_id>
leave_command(u, event_id) ==
    /\ DoUnregister(event_id, u)
    /\ UNCHANGED <<events, now, pending>>

\* a call of FootballDatabase.cancel_event
CancelEvent(event_id) ==
    LET r == cancel_event(events, event_id)
    IN /\ events' = r.evs
       /\ last' = [NoCall EXCEPT !.op = "cancel_event", !.ret = r.ret]
       /\ UNCHANGED <<registrations, now, pending>>

\* a press of Join or Leave on an event card: button_handler runs up to
\* `await query.answer()`; cards exist for created events only
button_press(u, data, event_id) ==
    /\ BagCardinality(pending) < MaxPending
    /\ get_event(events, event_id) # {}
    /\ pending' = pending (+) SetToBag({[user |-> u, data |-> data,
                                         event_id |-> event_id]})
    /\ UNCHANGED <<events, registrations, now, last>>

\* button_handler resumed, data.startswith("join_")
button_join(h) ==
    /\ h.data = "join"
    /\ DoRegister(h.event_id, h.user)
    /\ pending' = pending (-) SetToBag({h})
    /\ UNCHANGED <<events, now>>

\* button_handler resumed, data.startswith("leave_")
button_leave(h) ==
    /\ h.data = "leave"
    /\ DoUnregister(h.event_id, h.user)
    /\ pending' = pending (-) SetToBag({h})
    /\ UNCHANGED <<events, now>>

\* the commands and the store calls, one after the other
Next ==
    \/ Tick
    \/ \E u \in Users, d \in Dates, t \in Times, m \in PlayerArgs, x \in Descriptions :
          create_event_command(u, d, t, m, x)
    \/ \E u \in Users, e \in EventIds : join_command(u, e)
    \/ \E u \in Users, e \in EventIds : leave_command(u, e)
    \/ \E e \in EventIds : CancelEvent(e)

Spec == Init /\ [][Next]_vars

\* a burst of button presses on the event cards: the handlers overlap, each
\* resumed in any order after its `await query.answer()`
NextButtons ==
    \/ Tick
    \/ \E u \in Users, d \in Dates, t \in Times, m \in PlayerArgs, x \in Descriptions :
          create_event_command(u, d, t, m, x)
    \/ \E u \in Users, data \in {"join", "leave"}, e \in EventIds :
          button_press(u, data, e)
    \/ \E h \in BagToSet(pending) : button_join(h)
    \/ \E h \in BagToSet(pending) : button_leave(h)

SpecButtons == Init /\ [][NextButtons]_vars

\* the message "/cancel_event <event_id>": main() registers handlers for
\* start, help, create_event, events, mystatus, randomize_teams, join and
\* leave and for the buttons, none for cancel_event, so the application
\* drops the update and no store call is made
cancel_event_command(u, event_id) ==
    /\ last' = [NoCall EXCEPT !.op = "cancel_event_command"]
    /\ UNCHANGED <<events, registrations, now, pending>>

\* the updates the bot receives as commands, /cancel_event among them
NextBot ==
    \/ Tick
    \/ \E u \in Users, d \in Dates, t \in Times, m \in PlayerArgs, x \in Descriptions :
          create_event_command(u, d, t, m, x)
    \/ \E u \in Users, e \in EventIds : join_command(u, e)
    \/ \E u \in Users, e \in EventIds : leave_command(u, e)
    \/ \E u \in Users, e \in EventIds : cancel_event_command(u, e)

SpecBot == Init /\ [][NextBot]_vars

\* random.shuffle(players): the list in any order
shuffle(players) ==
    {[k \in DOMAIN players |-> players[p[k]]] :
        p \in {p \in [DOMAIN players -> DOMAIN players] :
                  \A i, j \in DOMAIN players : i # j => p[i] # p[j]}}

\* the split without `if len(players) % 2 == 1: team1.append(team2.pop())`
split_teams_at_mid_point(players) ==
    [team1 |-> SubSeq(players, 1, Len(players) \div 2),
     team2 |-> SubSeq(players, (Len(players) \div 2) + 1, Len(players))]

\* team1 = players[:mid_point]; team2 = players[mid_point:]; with an odd
\* number of players the last player of team2 is moved to the end of team1
split_teams(players) ==
    LET mid_point == Len(players) \div 2
        team1 == SubSeq(players, 1, mid_point)
        team2 == SubSeq(players, mid_point + 1, Len(players))
    IN IF Len(players) % 2 = 1
       THEN [team1 |-> Append(team1, team2[Len(team2)]),
             team2 |-> SubSeq(team2, 1, Len(team2) - 1)]
       ELSE [team1 |-> team1, team2 |-> team2]

\* what randomize_teams_command leaves behind: no store call, the reply sent
\* and the two teams of the message (empty when none were formed)
TeamsReply(reply, team1, team2) ==
    [op |-> "randomize_teams_command", ret |-> None, reg_type |-> None,
     user_reg_type |-> None, next_user |-> 0,
     reply |-> reply, team1 |-> team1, team2 |-> team2]

\* /randomize_teams event_id
randomize_teams_command(u, event_id) ==
    /\ IF u \notin ADMIN_IDS
       THEN \* "Only admins can randomize teams!"
            UNCHANGED last
       ELSE IF get_event(events, event_id) = {}
       THEN \* "Event not found!"
            UNCHANGED last
       ELSE \E players \in get_players_for_teams(registrations, event_id) :
               IF Len(players) < 2
               THEN last' = TeamsReply("Need at least 2 players to create teams!",
                                       <<>>, <<>>)
               ELSE \E shuffled \in shuffle(players) :
                       last' = TeamsReply("Random Teams for Event",
                                          split_teams(shuffled).team1,
                                          split_teams(shuffled).team2)
    /\ UNCHANGED <<events, registrations, now, pending>>

\* the max_players given to /create_event where teams are drawn: one more
\* than elsewhere, for a main list of odd length above one
TeamPlayerArgs == (MinPlayers - 1)..MaxTeamPlayers

\* the commands, /randomize_teams among them
NextTeams ==
    \/ Tick
    \/ \E u \in Users, d \in Dates, t \in Times, m \in TeamPlayerArgs, x \in Descriptions :
          create_event_command(u, d, t, m, x)
    \/ \E u \in Users, e \in EventIds : join_command(u, e)
    \/ \E u \in Users, e \in EventIds : leave_command(u, e)
    \/ \E u \in Users, e \in EventIds : randomize_teams_command(u, e)

SpecTeams == Init /\ [][NextTeams]_vars
\* ------------------------------------------------------------ properties
\* what the properties read off the tables, stated apart from the queries above
Rows(e) == {i \in DOMAIN registrations : registrations[i].event_id = e}
Active(e) == {i \in Rows(e) : registrations[i].status = "active"}
ActiveMain(e) == {i \in Active(e) : registrations[i].registration_type = "main"}
ActiveReserve(e) == {i \in Active(e) : registrations[i].registration_type = "reserve"}
RowsOf(e, u) == {i \in Rows(e) : registrations[i].user_id = u}
Exists(e) == e \in DOMAIN events
\* the rows of the step whose registration_type differs afterwards
Retyped == {i \in DOMAIN registrations :
               registrations'[i].registration_type # registrations[i].registration_type}
\* the rows of event e the step promotes, and the active main rows it cancels
Promoted(e) == {i \in ActiveReserve(e) : registrations'[i].registration_type = "main"}
Vacated(e) == {i \in ActiveMain(e) : registrations'[i].status = "cancelled"}
\* the row a step has appended
NewRow == registrations'[Len(registrations')]

\* C1: for every event the number of active main registrations is at most
\* the event's max_players, in every state the commands can reach
CapacityRespected ==
    \A e \in DOMAIN events : Cardinality(ActiveMain(e)) <= events[e].max_players

\* C1 witness: an event is full, somebody waits on reserve and a main player has left
FullWithReserve ==
    \E e \in DOMAIN events :
        /\ Cardinality(ActiveMain(e)) = events[e].max_players
        /\ ActiveReserve(e) # {}
        /\ \E i \in Rows(e) : /\ registrations[i].status = "cancelled"
                               /\ registrations[i].registration_type = "main"

\* C2: an unregister_user that cancels a main registration changes the type
\* of exactly one row when the event has an active reserve, the one with the
\* earliest registered_at, which becomes main; with no active reserve no row
\* changes type and the active main count drops by one
PromotionOnDeparture ==
    [][registrations' # registrations => \A u \in Users, e \in EventIds :
          (RowsOf(e, u) \cap ActiveMain(e) # {} /\ DoUnregister(e, u)) =>
             IF ActiveReserve(e) # {}
             THEN \E p \in ActiveReserve(e) :
                     /\ Retyped = {p}
                     /\ registrations'[p].registration_type = "main"
                     /\ registrations'[p].status = "active"
                     /\ \A q \in ActiveReserve(e) :
                           registrations[p].registered_at <= registrations[q].registered_at
             ELSE /\ Retyped = {}
                  /\ Cardinality(ActiveMain(e)') = Cardinality(ActiveMain(e)) - 1]_vars

\* C2 witness: a main player has left, a reserve was promoted and a later
\* reserve still waits
PromotedEarlierOfTwo ==
    /\ last.op = "unregister_user"
    /\ last.user_reg_type = "main"
    /\ last.next_user # 0
    /\ \E e \in DOMAIN events :
          \E p \in RowsOf(e, last.next_user) \cap ActiveMain(e), q \in ActiveReserve(e) :
              registrations[p].registered_at < registrations[q].registered_at
\* C3: register_user checks and inserts in one step with respect to the other
\* calls: when a Join press is resumed while the Join press of another user
\* on the same event is still in flight, the row it inserts is main exactly
\* when the event has room at that moment, the insert is the only change to
\* the main list, and the active main count stays within max_players
AtomicRegister ==
    [][registrations' # registrations =>
         \A h \in BagToSet(pending) :
            (/\ h.data = "join"
             /\ button_join(h)
             /\ last'.ret = True
             /\ \E g \in BagToSet(pending') :
                   g.data = "join" /\ g.event_id = h.event_id /\ g.user # h.user) =>
               LET e == h.event_id
                   room == Cardinality(ActiveMain(e)) < events[e].max_players
               IN /\ (NewRow.registration_type = "main") <=> room
                  /\ ActiveMain(e)' = ActiveMain(e) \cup
                        (IF room THEN {Len(registrations')} ELSE {})
                  /\ Cardinality(ActiveMain(e)') <= events[e].max_players]_vars

\* C3 witness: of two Join presses in flight for the one free main slot, one
\* has been resumed and took the slot; the other user is still to be registered
LastSlotTakenWhileJoinPending ==
    /\ last.op = "register_user"
    /\ last.ret = True
    /\ last.reg_type = "main"
    /\ \E g \in BagToSet(pending) :
          /\ g.data = "join"
          /\ registrations[Len(registrations)].event_id = g.event_id
          /\ registrations[Len(registrations)].user_id # g.user
          /\ Cardinality(ActiveMain(g.event_id)) = events[g.event_id].max_players
          /\ RowsOf(g.event_id, g.user) = {}

\* C4: whatever the order in which overlapping calls are resumed, a step
\* promotes one reserve of an event when it cancels a main registration of
\* that event while a reserve is active, and promotes nobody otherwise; a
\* step vacates at most one main slot
OnePromotionPerVacatedSlot ==
    [][registrations' # registrations =>
         \A e \in EventIds :
            /\ Cardinality(Vacated(e)) <= 1
            /\ Cardinality(Promoted(e)) =
                  IF Vacated(e) # {} /\ ActiveReserve(e) # {} THEN 1 ELSE 0]_vars

\* C4 witness: two Leave presses of main players overlap; the first has been
\* resumed and a reserve was promoted, the second is in flight and another
\* reserve is waiting
PromotionWhileLeavePending ==
    /\ last.op = "unregister_user"
    /\ last.next_user # 0
    /\ \E g \in BagToSet(pending) :
          /\ g.data = "leave"
          /\ RowsOf(g.event_id, g.user) \cap ActiveMain(g.event_id) # {}
          /\ RowsOf(g.event_id, last.next_user) \cap ActiveMain(g.event_id) # {}
          /\ g.user # last.next_user
          /\ ActiveReserve(g.event_id) # {}

\* C5: a register_user for a pair whose registration was cancelled by
\* unregister_user returns true and appends a new active row, the cancelled
\* row staying as it is; a user never has two active rows for an event
ReRegistrationSucceeds ==
    [][\A u \in Users, e \in EventIds :
          /\ Cardinality(RowsOf(e, u) \cap Active(e)') <= 1
          /\ (/\ Exists(e)
              /\ RowsOf(e, u) # {}
              /\ RowsOf(e, u) \cap Active(e) = {}
              /\ DoRegister(e, u)) =>
                /\ last'.ret = True
                /\ Len(registrations') = Len(registrations) + 1
                /\ NewRow.status = "active"
                /\ \A i \in DOMAIN registrations : registrations'[i] = registrations[i]]_vars

\* C6: register_user, unregister_user and cancel_event called with the id of
\* no event return false, raise nothing and leave both tables as they are
UnknownEventReturnsFalse ==
    [][\A e \in EventIds : ~Exists(e) =>
          /\ \A u \in Users : (DoRegister(e, u) \/ DoUnregister(e, u)) =>
                (last'.ret = False /\ UNCHANGED <<events, registrations>>)
          /\ CancelEvent(e) =>
                (last'.ret = False /\ UNCHANGED <<events, registrations>>)]_vars

\* C7: cancel_event returns true exactly when it changed the status of the
\* event from active to cancelled
CancelReturnsWhetherChanged ==
    [][\A e \in EventIds : CancelEvent(e) =>
          (last'.ret = True <=>
              (Exists(e) /\ events[e].status = "active"
                         /\ events'[e].status = "cancelled"))]_vars

\* C8: no active reserve registration of an event was registered earlier
\* than an active main registration of the same event
MainBeforeReserve ==
    \A e \in DOMAIN events :
        \A m \in ActiveMain(e), r \in ActiveReserve(e) :
            registrations[m].registered_at <= registrations[r].registered_at

\* C8 witness: of two reserves of one second one has been promoted and the
\* other stays behind, next to a main player of an earlier second
PromotedAmongTies ==
    /\ last.next_user # 0
    /\ \E e \in DOMAIN events :
          \E p \in RowsOf(e, last.next_user) \cap ActiveMain(e),
             m \in ActiveMain(e), r \in ActiveReserve(e) :
               /\ registrations[m].registered_at < registrations[r].registered_at
               /\ registrations[p].registered_at = registrations[r].registered_at

\* C9: a row changes its registration_type only from reserve to main and
\* only in an unregister_user of a main registrant of its event; rows are
\* never removed; a successful register_user appends one row and leaves
\* every other row as it is
TypeChangesOnlyByPromotion ==
    [][registrations' # registrations =>
         /\ Len(registrations') >= Len(registrations)
         /\ \A i \in Retyped :
               /\ registrations[i].registration_type = "reserve"
               /\ registrations'[i].registration_type = "main"
               /\ \E u \in Users :
                     /\ RowsOf(registrations[i].event_id, u)
                           \cap ActiveMain(registrations[i].event_id) # {}
                     /\ DoUnregister(registrations[i].event_id, u)
         /\ \A u \in Users, e \in EventIds :
               (DoRegister(e, u) /\ last'.ret = True) =>
                  /\ Len(registrations') = Len(registrations) + 1
                  /\ \A i \in DOMAIN registrations :
                        registrations'[i] = registrations[i]]_vars

\* C9 witness: a reserve player has left while another reserve was waiting
ReserveLeftOthersWait ==
    /\ last.op = "unregister_user"
    /\ last.ret = True
    /\ last.user_reg_type = "reserve"
    /\ \E e \in DOMAIN events :
          /\ ActiveReserve(e) # {}
          /\ \E c \in Rows(e) : /\ registrations[c].status = "cancelled"
                                 /\ registrations[c].registration_type = "reserve"

\* C10: a successful register_user on an existing event inserts the new row
\* as main exactly when the active main count of the event at the call is
\* below max_players, and as reserve otherwise
MainIffRoom ==
    [][registrations' # registrations =>
         \A u \in Users, e \in EventIds :
            (DoRegister(e, u) /\ last'.ret = True) =>
               /\ Exists(e)
               /\ NewRow.event_id = e /\ NewRow.user_id = u
               /\ NewRow.status = "active"
               /\ NewRow.registration_type =
                     IF Cardinality(ActiveMain(e)) < events[e].max_players
                     THEN "main" ELSE "reserve"]_vars

\* C10 witness: a registration has just taken the last main slot of its event
LastSlotTaken ==
    /\ last.op = "register_user"
    /\ last.ret = True
    /\ last.reg_type = "main"
    /\ registrations # <<>>
    /\ LET n == registrations[Len(registrations)]
       IN /\ n.registration_type = "main"
          /\ Cardinality(ActiveMain(n.event_id)) = events[n.event_id].max_players
\* the users of the rows of event e in the order they joined (rowid order)
JoinOrder(e) ==
    LET S == Rows(e)
        nth[k \in 0..Cardinality(S)] ==
            IF k = 0 THEN <<>>
            ELSE Append(nth[k - 1],
                        registrations[CHOOSE i \in S :
                            Cardinality({j \in S : j <= i}) = k].user_id)
    IN nth[Cardinality(S)]
UserIds(list) == [k \in DOMAIN list |-> list[k].user_id]
Min(a, b) == IF a < b THEN a ELSE b

\* C11: after n joins by distinct users and no leave, get_event_registrations
\* returns the first min(n, M) joiners as main and the others as reserve,
\* both in join order; when the first main joiner then leaves,
\* unregister_user returns true and the lists are the remaining main
\* players followed by the formerly first reserve, and the other reserves
ListsInJoinOrder ==
    [][\A e \in DOMAIN events :
          LET M == events[e].max_players
              n == Len(JoinOrder(e))
              first == JoinOrder(e)[1]
          IN /\ (\A i \in Rows(e)' : registrations'[i].status = "active") =>
                  \A r \in get_event_registrations(registrations', e) :
                     /\ UserIds(r.main) = SubSeq(JoinOrder(e)', 1, Min(Len(JoinOrder(e)'), M))
                     /\ UserIds(r.reserve) =
                           SubSeq(JoinOrder(e)', Min(Len(JoinOrder(e)'), M) + 1, Len(JoinOrder(e)'))
             /\ (/\ n > 0
                 /\ \A i \in Rows(e) : registrations[i].status = "active"
                 /\ DoUnregister(e, first)) =>
                   /\ last'.ret = True
                   /\ \A r \in get_event_registrations(registrations', e) :
                        /\ UserIds(r.main) = SubSeq(JoinOrder(e), 2, Min(n, M + 1))
                        /\ UserIds(r.reserve) = SubSeq(JoinOrder(e), Min(n, M + 1) + 1, n)]_vars

\* C12: register_user for an (event, user) pair that has an active
\* registration, main or reserve, returns false and leaves every
\* registration as it was
DuplicateJoinRejected ==
    [][last'.op = "register_user" => \A e \in EventIds, u \in Users :
          (/\ RowsOf(e, u) \cap Active(e) # {}
           /\ DoRegister(e, u)) =>
             /\ last'.ret = False
             /\ registrations' = registrations]_vars

\* a join was rejected by the already-registered check while the user held
\* an active reserve registration
RejectedWhileOnReserve ==
    /\ last.op = "register_user"
    /\ last.ret = False
    /\ last.reg_type = None
    /\ \E e \in DOMAIN events, u \in Users :
          /\ RowsOf(e, u) \cap ActiveReserve(e) # {}
          /\ ActiveMain(e) # {}

\* C13: unregister_user for a pair with no active registration (never joined,
\* or already left) returns false, changes no registration and no event, and
\* promotes nobody
LeaveWithoutRegistrationRejected ==
    [][last'.op = "unregister_user" => \A e \in EventIds, u \in Users :
          (/\ RowsOf(e, u) \cap Active(e) = {}
           /\ DoUnregister(e, u)) =>
             /\ last'.ret = False
             /\ last'.next_user = 0
             /\ registrations' = registrations
             /\ events' = events]_vars

\* a leave was rejected for a user who had left a main slot before, while a
\* reserve player was waiting
SecondLeaveWithReserveWaiting ==
    /\ last.op = "unregister_user"
    /\ last.ret = False
    /\ \E e \in DOMAIN events :
          /\ ActiveReserve(e) # {}
          /\ \E i \in Rows(e) : /\ registrations[i].status = "cancelled"
                                /\ registrations[i].registration_type = "main"

\* C14: of two register_user calls for the same (event, user) pair that race
\* each other (two Join presses of one user in flight), each returns true or
\* false and never raises, a call returns true only when the pair had no
\* active registration, so that at most one of the two returns true, and the
\* pair has at most one active registration afterwards
RacingJoinsRegisterOnce ==
    [][last'.op = "register_user" =>
         \A h \in BagToSet(pending) :
            (/\ h.data = "join"
             /\ button_join(h)
             /\ \/ CopiesIn(h, pending) > 1
                \/ RowsOf(h.event_id, h.user) \cap Active(h.event_id) # {}) =>
               /\ last'.ret \in {True, False}
               /\ last'.ret = True =>
                     RowsOf(h.event_id, h.user) \cap Active(h.event_id) = {}
               /\ Cardinality((RowsOf(h.event_id, h.user) \cap Active(h.event_id))') <= 1]_vars

\* the first of two racing joins of one user has registered the user; the
\* second is still in flight
JoinedWhileSameJoinPending ==
    /\ last.op = "register_user"
    /\ last.ret = True
    /\ \E g \in BagToSet(pending) :
          /\ g.data = "join"
          /\ registrations[Len(registrations)].event_id = g.event_id
          /\ registrations[Len(registrations)].user_id = g.user
          /\ registrations[Len(registrations)].status = "active"

\* C15: cancel_event on an existing active event returns true, sets the
\* event's status to cancelled and changes no registration: the event's
\* registrations stay active and get_event_registrations returns the same
\* main and reserve lists as before
CancelKeepsRegistrations ==
    [][last'.op = "cancel_event" =>
         \A e \in DOMAIN events :
            (/\ events[e].status = "active"
             /\ events' = cancel_event(events, e).evs
             /\ last'.ret = cancel_event(events, e).ret) =>
               /\ last'.ret = True
               /\ events'[e].status = "cancelled"
               /\ registrations' = registrations
               /\ Active(e)' = Active(e)
               /\ get_event_registrations(registrations', e) =
                     get_event_registrations(registrations, e)]_vars

\* an event with main and reserve players has just been cancelled
CancelledWithPlayers ==
    /\ last.op = "cancel_event"
    /\ last.ret = True
    /\ \E e \in DOMAIN events :
          /\ events[e].status = "cancelled"
          /\ ActiveMain(e) # {}
          /\ ActiveReserve(e) # {}

\* C16: an event record, once created, never disappears; no step changes its
\* id, date, time, max_players, description or created_by; its status is the
\* only field that changes, and only from active to cancelled
EventFixedButStatus ==
    [][/\ Len(events') >= Len(events)
       /\ \A i \in DOMAIN events :
             /\ events'[i] = [events[i] EXCEPT !.status = events'[i].status]
             /\ events'[i].status # events[i].status =>
                   events[i].status = "active" /\ events'[i].status = "cancelled"]_vars

\* a player joined an event after it had been cancelled
JoinedCancelledEvent ==
    /\ last.op = "register_user"
    /\ last.ret = True
    /\ events[registrations[Len(registrations)].event_id].status = "cancelled"

\* C17: a successful unregister_user sets the user's active registration of
\* the event to cancelled, without deleting the row and without changing its
\* registration_type; no step removes a registration row, and a cancelled
\* registration is never active again
LeaveKeepsRow ==
    [][registrations' # registrations =>
         /\ Len(registrations') >= Len(registrations)
         /\ \A i \in DOMAIN registrations :
               /\ registrations'[i].id = registrations[i].id
               /\ registrations'[i].event_id = registrations[i].event_id
               /\ registrations'[i].user_id = registrations[i].user_id
               /\ registrations[i].status = "cancelled" =>
                     registrations'[i].status = "cancelled"
         /\ \A e \in EventIds, u \in Users :
               (DoUnregister(e, u) /\ last'.ret = True) =>
                  /\ RowsOf(e, u) \cap Active(e) # {}
                  /\ \A i \in RowsOf(e, u) \cap Active(e) :
                        registrations'[i] =
                           [registrations[i] EXCEPT !.status = "cancelled"]]_vars

\* a main player has just left: the row is still there, cancelled, and still
\* of type main
LeftMainRowKept ==
    /\ last.op = "unregister_user"
    /\ last.ret = True
    /\ last.user_reg_type = "main"
    /\ \E i \in DOMAIN registrations :
          /\ registrations[i].status = "cancelled"
          /\ registrations[i].registration_type = "main"
    /\ \E e \in DOMAIN events : ActiveMain(e) # {}

\* the entries of a list, as a set
Entries(list) == {list[k] : k \in DOMAIN list}

\* C18: get_user_registrations(user) returns exactly the user's active
\* registrations whose event is active, one entry each: a registration is not
\* in it once the user has left or the event is cancelled, although after a
\* cancellation get_event_registrations still returns it
MyStatusOnlyActiveEvents ==
    \A u \in Users :
       \A r \in get_user_registrations(registrations, events, u) :
          LET mine == {i \in DOMAIN registrations :
                          /\ registrations[i].user_id = u
                          /\ registrations[i].status = "active"
                          /\ events[registrations[i].event_id].status = "active"}
          IN /\ Len(r) = Cardinality(mine)
             /\ Entries(r) = {<<registrations[i].event_id,
                                events[registrations[i].event_id].date,
                                events[registrations[i].event_id].time,
                                registrations[i].registration_type>> : i \in mine}
             /\ \A e \in DOMAIN events :
                   /\ RowsOf(e, u) \cap Active(e) = {} =>
                         \A k \in DOMAIN r : r[k][1] # e
                   /\ (/\ events[e].status = "cancelled"
                       /\ RowsOf(e, u) \cap Active(e) # {}) =>
                         /\ \A k \in DOMAIN r : r[k][1] # e
                         /\ \A g \in get_event_registrations(registrations, e) :
                               u \in Entries(UserIds(g.main)) \cup
                                     Entries(UserIds(g.reserve))

\* an event was cancelled after one player had left it: a remaining player's
\* registration is active, and get_user_registrations returns nothing for
\* that player
HiddenByCancellation ==
    \E e \in DOMAIN events, u \in Users :
       /\ events[e].status = "cancelled"
       /\ RowsOf(e, u) \cap ActiveReserve(e) # {}
       /\ \E i \in Rows(e) : registrations[i].status = "cancelled"
       /\ get_user_registrations(registrations, events, u) = {<<>>}

\* C19: get_players_for_teams returns one entry per active main registration
\* of the event and no other, ordered by registered_at, and an entry's
\* display_name is the first_name when there is one, else the username when
\* there is one, else the user_id in decimal
PlayersForTeams ==
    \A e \in DOMAIN events :
       \A p \in get_players_for_teams(registrations, e) :
          LET row(k) == CHOOSE i \in Rows(e) :
                           /\ registrations[i].user_id = p[k].user_id
                           /\ registrations[i].status = "active"
          IN /\ Len(p) = Cardinality(ActiveMain(e))
             /\ {row(k) : k \in DOMAIN p} = ActiveMain(e)
             /\ \A j, k \in DOMAIN p :
                   j < k => registrations[row(j)].registered_at <=
                               registrations[row(k)].registered_at
             /\ \A k \in DOMAIN p :
                   /\ p[k].username = registrations[row(k)].username
                   /\ p[k].first_name = registrations[row(k)].first_name
                   /\ p[k].display_name =
                         IF p[k].first_name # None THEN p[k].first_name
                         ELSE IF p[k].username # None THEN p[k].username
                         ELSE str(p[k].user_id)

\* the main list of a full event with a reserve holds a player shown by
\* username and a player without names, shown by user id
PlayersShownByFallbacks ==
    \E e \in DOMAIN events :
       /\ ActiveReserve(e) # {}
       /\ \E p \in get_players_for_teams(registrations, e) :
             \E j, k \in DOMAIN p :
                /\ p[j].first_name = None /\ p[j].display_name = p[j].username
                /\ p[k].username = None /\ p[k].display_name = str(p[k].user_id)
                /\ p[k].display_name \in {"3", "6", "9"}

\* C20: an admin cancels an event through the /cancel_event command, as the
\* help text says: after an admin's /cancel_event for an existing active
\* event the event's status is cancelled
AdminCancelsByCommand ==
    [][\A u \in ADMIN_IDS, e \in DOMAIN events :
          (/\ events[e].status = "active"
           /\ cancel_event_command(u, e)) =>
             events'[e].status = "cancelled"]_vars

\* C21: when the operations run one after the other, no player waits on
\* reserve while a main slot is free: an event with an active reserve
\* registration has exactly max_players active main registrations
NoReserveWhileSlotFree ==
    \A e \in DOMAIN events :
       ActiveReserve(e) # {} => Cardinality(ActiveMain(e)) = events[e].max_players

\* a main player has left a full event with two reserves: one was promoted
\* into the slot, the other still waits behind a full main list
ReserveWaitsBehindRefilledMain ==
    /\ last.op = "unregister_user"
    /\ last.user_reg_type = "main"
    /\ last.next_user # 0
    /\ \E e \in DOMAIN events :
          /\ ActiveReserve(e) # {}
          /\ Cardinality(ActiveMain(e)) = events[e].max_players
          /\ \E i \in ActiveMain(e) : registrations[i].user_id = last.next_user

\* C22: the registrations table holds at most one row, of whatever status,
\* for an (event, user) pair, in every state that joins and leaves by the
\* user can reach
OneRowPerPair ==
    \A e \in EventIds, u \in Users : Cardinality(RowsOf(e, u)) <= 1

\* a user who had left tried to join again: the INSERT was refused and the
\* cancelled row is the pair's only row
RejoinRefusedByConstraint ==
    /\ last.op = "register_user"
    /\ last.ret = False
    /\ last.reg_type # None
    /\ \E e \in DOMAIN events, u \in Users :
          /\ Cardinality(RowsOf(e, u)) = 1
          /\ RowsOf(e, u) \cap Active(e) = {}

\* C23: register_user and unregister_user do not look at the event's status:
\* on a cancelled event, register_user by a user with no registration for it
\* returns true and inserts an active row, main when the active main count is
\* below max_players and reserve otherwise, and unregister_user of a main
\* registrant promotes a reserve of the earliest registered_at
CancelledEventStillOpen ==
    [][last'.op \in {"register_user", "unregister_user"} =>
         \A e \in DOMAIN events, u \in Users :
            events[e].status = "cancelled" =>
               /\ (RowsOf(e, u) = {} /\ DoRegister(e, u)) =>
                     /\ last'.ret = True
                     /\ Len(registrations') = Len(registrations) + 1
                     /\ NewRow.event_id = e
                     /\ NewRow.user_id = u
                     /\ NewRow.status = "active"
                     /\ NewRow.registration_type =
                           IF Cardinality(ActiveMain(e)) < events[e].max_players
                           THEN "main" ELSE "reserve"
               /\ (/\ RowsOf(e, u) \cap ActiveMain(e) # {}
                   /\ ActiveReserve(e) # {}
                   /\ DoUnregister(e, u)) =>
                     /\ last'.ret = True
                     /\ Cardinality(Promoted(e)) = 1
                     /\ \A i \in Promoted(e) : \A j \in ActiveReserve(e) :
                           registrations[i].registered_at <= registrations[j].registered_at]_vars

\* a main player has left an event after its cancellation and a reserve was
\* promoted into the slot
PromotedOnCancelledEvent ==
    /\ last.op = "unregister_user"
    /\ last.ret = True
    /\ last.next_user # 0
    /\ \E e \in DOMAIN events :
          /\ events[e].status = "cancelled"
          /\ \E i \in ActiveMain(e) : registrations[i].user_id = last.next_user

\* C24: randomize_teams_command run by an admin for an event with N >= 2
\* active main players forms two disjoint teams that together hold every one
\* of the N players exactly once, team 1 of ceil(N/2) and team 2 of
\* floor(N/2) players; with fewer than 2 players it forms no teams
TeamsSplitEvenly ==
    [][last'.op = "randomize_teams_command" =>
         \A u \in ADMIN_IDS, e \in DOMAIN events :
            randomize_teams_command(u, e) =>
               LET N == Cardinality(ActiveMain(e))
                   ids1 == Entries(UserIds(last'.team1))
                   ids2 == Entries(UserIds(last'.team2))
               IN IF N >= 2
                  THEN /\ ids1 \cap ids2 = {}
                       /\ ids1 \cup ids2 = {registrations[i].user_id : i \in ActiveMain(e)}
                       /\ Len(last'.team1) + Len(last'.team2) = N
                       /\ Len(last'.team1) = (N + 1) \div 2
                       /\ Len(last'.team2) = N \div 2
                  ELSE /\ last'.team1 = <<>>
                       /\ last'.team2 = <<>>]_vars

\* teams were drawn from an odd number of main players while a reserve was
\* waiting: team 1 has the extra player
OddTeamsDrawn ==
    /\ last.op = "randomize_teams_command"
    /\ Len(last.team1) = 2
    /\ Len(last.team2) = 1
    /\ \E e \in DOMAIN events : ActiveReserve(e) # {}
====
